---- MODULE Spec2Model ----
(***************************************************************************)
(* The three build drivers of the repository:                              *)
(*   lrtdw/make.py         gcc and rustc, argparse front end               *)
(*   nbody-c/make.py       gcc only, dispatch on sys.argv                  *)
(*   nbody-rs/src/make.py  rustc only, dispatch on sys.argv                *)
(*                                                                         *)
(* A Python string is modelled as a sequence of atoms: an atom is a piece  *)
(* of text without blanks, or the single blank " ".  String concatenation  *)
(* is \o, the empty string is << >>.  " ".join(list) and the f-strings     *)
(* build the command text exactly as the scripts do; the shell that        *)
(* os.system hands the text to splits it at the blanks again.              *)
(*                                                                         *)
(* The three scripts are separate programs working on one file system; the *)
(* user runs them one at a time, in any order, each on the command line of *)
(* the round, and then starts over on the files the runs left behind.      *)
(* Each os.system call is two steps: the call is issued, and later the     *)
(* subprocess returns with an exit status and its effect on the files.     *)
(***************************************************************************)
EXTENDS Integers, Sequences, FiniteSets, TLC

VARIABLES
    platform,   \* sys.platform, fixed for a behaviour
    argv,       \* argv[s]: sys.argv of the current invocation of script s
    pc,         \* pc[s]: position of script s in its __main__ block
    args,       \* the argparse Namespace of lrtdw/make.py (after parse_args)
    issued,     \* issued[s]: command texts passed to os.system so far
    returned,   \* returned[s]: exit statuses of the os.system calls that returned
    console,    \* console[s]: what the script itself printed (stdout/stderr)
    exitCode,   \* exitCode[s]: << >> while running, <<code>> once exited
    fs          \* the files that exist

vars == <<platform, argv, pc, args, issued, returned, console, exitCode, fs>>

(***************************************************************************)
(* Bounds                                                                  *)
(***************************************************************************)
MaxArgs == 2      \* command-line tokens after the script name

(***************************************************************************)
(* Names                                                                   *)
(***************************************************************************)
LRTDW == "lrtdw/make.py"
NBODY_C == "nbody-c/make.py"
NBODY_RS == "nbody-rs/src/make.py"
Scripts == {LRTDW, NBODY_C, NBODY_RS}
Standalone == {NBODY_C, NBODY_RS}

C == "c"
Rust == "rust"
Toolchains == {C, Rust}

Platforms == {"linux", "win32"}
Status == {0, 1}          \* exit status of a subprocess: success, failure

FlagTokens == {"--c_only", "--rust_only"}
RuleTokens == {"time", "clean", "build"}     \* "build" stands for any other token
Tokens == RuleTokens \cup FlagTokens

SP == <<" ">>             \* the blank as a one-atom string

(***************************************************************************)
(* String helpers                                                          *)
(***************************************************************************)
RECURSIVE Join(_, _)
Join(sep, list) ==
    IF list = << >> THEN << >>
    ELSE IF Len(list) = 1 THEN list[1]
    ELSE list[1] \o sep \o Join(sep, Tail(list))

\* the end of the word of text that starts at position i
RECURSIVE WordEnd(_, _)
WordEnd(text, i) ==
    IF i > Len(text) \/ text[i] = " " THEN i - 1 ELSE WordEnd(text, i + 1)

\* the words of text from position i on
RECURSIVE WordsFrom(_, _)
WordsFrom(text, i) ==
    IF i > Len(text) THEN << >>
    ELSE IF text[i] = " " THEN WordsFrom(text, i + 1)
    ELSE LET j == WordEnd(text, i) IN <<SubSeq(text, i, j)>> \o WordsFrom(text, j + 1)

\* the words the shell sees in a command text
ShellWords(text) == WordsFrom(text, 1)

Range(f) == {f[i] : i \in DOMAIN f}


(***************************************************************************)
(* Module-level constants of the scripts                                   *)
(***************************************************************************)
in_windows == platform = "win32"

\* os.sep, as used by os.path.join
sep == IF in_windows THEN <<"\\">> ELSE <<"/">>

path_join(a, b) == a \o sep \o b

\* where the checkout lives
Root == IF in_windows THEN <<"C:", "\\", "repo">> ELSE <<"/", "repo">>

\* dir_path = path.dirname(path.realpath(__file__)) of each script
dir_path(s) ==
    CASE s = LRTDW    -> path_join(Root, <<"lrtdw">>)
      [] s = NBODY_C  -> path_join(Root, <<"nbody-c">>)
      [] s = NBODY_RS -> path_join(path_join(Root, <<"nbody-rs">>), <<"src">>)

ext == IF in_windows THEN <<".exe">> ELSE << >>

\* ---- lrtdw/make.py
subdir(t) == IF t = C THEN <<"nbody-c">> ELSE path_join(<<"nbody-rs">>, <<"src">>)

lrtdw_src(t) ==
    path_join(path_join(dir_path(LRTDW), subdir(t)),
              IF t = C THEN <<"main.c">> ELSE <<"main.rs">>)

lrtdw_exe(t) ==
    path_join(path_join(dir_path(LRTDW), subdir(t)),
              IF t = C THEN <<"nbody-c">> ELSE <<"nbody-rs">>)

compile_(t) ==
    IF t = C
    THEN << <<"gcc">>, <<"-O3">>, <<"-fomit-frame-pointer">>, <<"-march=native">>,
            <<"-funroll-loops">>, <<"-static">>,
            lrtdw_src(C), <<"-o">>, lrtdw_exe(C) \o ext, <<"-lm">> >>
    ELSE << <<"rustc">>, <<"-C">>, <<"opt-level=3">>, <<"-C">>, <<"target-cpu=native">>,
            <<"-C">>, <<"codegen-units=1">>,
            lrtdw_src(Rust), <<"-o">>, lrtdw_exe(Rust) \o ext >>

\* ---- nbody-c/make.py
c_src == path_join(dir_path(NBODY_C), <<"nbody.c">>)
c_exe == path_join(dir_path(NBODY_C), <<"nbody-c">>)

\* mutant: the source and the output path change places
GCC_ARGS_Swapped ==
    << <<"-O3">>, <<"-Wall">>, <<"-fomit-frame-pointer">>, <<"-march=native">>,
       <<"-funroll-loops">>, <<"-static">>, c_exe \o ext, <<"-o">>, c_src, <<"-lm">> >>

GCC_ARGS ==
    << <<"-O3">>, <<"-Wall">>, <<"-fomit-frame-pointer">>, <<"-march=native">>,
       <<"-funroll-loops">>, <<"-static">>, c_src, <<"-o">>, c_exe \o ext, <<"-lm">> >>

\* ---- nbody-rs/src/make.py
rs_src == path_join(dir_path(NBODY_RS), <<"nbody.rs">>)
rs_exe == path_join(dir_path(NBODY_RS), <<"nbody-rs">>)

RUSTC_ARGS ==
    << <<"-C">>, <<"opt-level=3">>, <<"-C">>, <<"target-cpu=native">>,
       <<"-C">>, <<"codegen-units=1">>, rs_src, <<"-o">>, rs_exe \o ext >>

(***************************************************************************)
(* The command texts handed to os.system                                   *)
(***************************************************************************)
\* lrtdw/make.py, one per rule and toolchain
\* mutant: `clean` forgets the platform suffix
LrtdwCleanCmd_NoExt(t) ==
    IF t = C
    THEN <<"rm">> \o SP \o lrtdw_exe(C)
    ELSE <<"rm">> \o SP \o lrtdw_exe(Rust) \o SP \o lrtdw_exe(Rust) \o <<".pdb">>

LrtdwCleanCmd(t) ==
    IF t = C
    THEN <<"rm">> \o SP \o (lrtdw_exe(C) \o ext)
    ELSE <<"rm">> \o SP \o (lrtdw_exe(Rust) \o ext) \o SP \o lrtdw_exe(Rust) \o <<".pdb">>

\* mutant: `time` wraps a compile without the optimisation flags
LrtdwTimeCmd_OtherFlags(t) ==
    Join(SP, << <<"time">>, compile_(t)[1] >>
             \o SubSeq(compile_(t), Len(compile_(t)) - 3, Len(compile_(t))))

LrtdwTimeCmd(t) == Join(SP, << <<"time">> >> \o compile_(t))

LrtdwCompileCmd(t) == Join(SP, compile_(t))

LrtdwCmd(rule, t) ==
    CASE rule = "clean" -> LrtdwCleanCmd(t)
      [] rule = "time"  -> LrtdwTimeCmd(t)
      [] OTHER          -> LrtdwCompileCmd(t)

\* the standalone scripts
StandaloneCompileCmd(s) ==
    IF s = NBODY_C THEN Join(SP, << <<"gcc">> >> \o GCC_ARGS)
                   ELSE Join(SP, << <<"rustc">> >> \o RUSTC_ARGS)

StandaloneTimeCmd(s) ==
    IF s = NBODY_C THEN Join(SP, << <<"time">>, <<"gcc">> >> \o GCC_ARGS)
                   ELSE Join(SP, << <<"time">>, <<"rustc">> >> \o RUSTC_ARGS)

StandaloneCleanCmd(s) ==
    IF s = NBODY_C THEN <<"rm">> \o SP \o (c_exe \o ext)
                   ELSE <<"rm">> \o SP \o (rs_exe \o ext) \o SP \o rs_exe \o <<".pdb">>

(***************************************************************************)
(* argparse, as configured by lrtdw/make.py:                               *)
(*   rule        optional positional, choices clean | time                 *)
(*   --c_only    store_true                                                *)
(*   --rust_only store_true                                                *)
(* The short forms -c, -rs and -rust set the same flags as the long forms  *)
(* and are not told apart here.                                            *)
(* The flags may stand anywhere and may repeat.  A first positional that   *)
(* is no choice, and any second positional, make parse_args print a usage  *)
(* error and exit with status 2.                                           *)
(***************************************************************************)
IsFlag(tok) == tok \in FlagTokens
IsPositional(tok) == ~IsFlag(tok)

Positionals(tokens) == SelectSeq(tokens, IsPositional)

RuleChoices == {"clean", "time"}

ParseError(tokens) ==
    LET pos == Positionals(tokens) IN
    IF pos = << >> THEN "none"
    ELSE IF pos[1] \notin RuleChoices THEN "invalid choice"
    ELSE IF Len(pos) > 1 THEN "unrecognized arguments"
    ELSE "none"

Namespace(tokens) ==
    LET pos == Positionals(tokens) IN
    [rule      |-> IF pos = << >> THEN "None" ELSE pos[1],
     c_only    |-> "--c_only" \in Range(tokens),
     rust_only |-> "--rust_only" \in Range(tokens)]

NoArgs == [rule |-> "None", c_only |-> FALSE, rust_only |-> FALSE]

(***************************************************************************)
(* The environment: what the subprocess does to the files                  *)
(***************************************************************************)
\* the words of a compiler command that name input files
RECURSIVE Operands(_)
Operands(ws) ==
    IF ws = << >> THEN {}
    ELSE IF Head(ws) \in {<<"-o">>, <<"-C">>} THEN
         (IF Len(ws) = 1 THEN {} ELSE Operands(Tail(Tail(ws))))
    ELSE IF Head(ws) \in {<<"-O3">>, <<"-Wall">>, <<"-fomit-frame-pointer">>,
                           <<"-march=native">>, <<"-funroll-loops">>, <<"-static">>,
                           <<"-lm">>}
         THEN Operands(Tail(ws))
    ELSE {Head(ws)} \cup Operands(Tail(ws))

\* the word after -o
RECURSIVE OutputOf(_)
OutputOf(ws) ==
    IF Len(ws) < 2 THEN {}
    ELSE IF Head(ws) = <<"-o">> THEN {ws[2]}
    ELSE OutputOf(Tail(ws))

Untimed(ws) == IF ws # << >> /\ Head(ws) = <<"time">> THEN Tail(ws) ELSE ws

\* on the words of a command: the program run, the paths created or
\* overwritten on success, the paths removed
ProgramW(ws) == LET us == Untimed(ws) IN IF us = << >> THEN << >> ELSE Head(us)

WrittenW(ws) ==
    IF ProgramW(ws) \in {<<"gcc">>, <<"rustc">>} THEN OutputOf(Tail(Untimed(ws))) ELSE {}

RemovedW(ws) ==
    IF ProgramW(ws) = <<"rm">> THEN Range(Tail(Untimed(ws))) ELSE {}

\* the same on the command text
Program(cmd) == ProgramW(ShellWords(cmd))

IsTimed(cmd) == LET ws == ShellWords(cmd) IN ws # << >> /\ Head(ws) = <<"time">>

Written(cmd) == WrittenW(ShellWords(cmd))

Removed(cmd) == RemovedW(ShellWords(cmd))

\* the debug-symbol file the MSVC linker leaves next to a Rust executable
PdbOf(out) ==
    IF out # << >> /\ out[Len(out)] = ".exe"
    THEN SubSeq(out, 1, Len(out) - 1) \o <<".pdb">>
    ELSE out \o <<".pdb">>

\* the possible outcomes [status, files] of running cmd on the files f
Outcomes(cmd, f) ==
    LET all == ShellWords(cmd)
        ws == Untimed(all)
        prog == ProgramW(all)
        out == WrittenW(all)
        gone == RemovedW(all)
    IN
    IF prog \in {<<"gcc">>, <<"rustc">>} THEN
        \* a compile can always fail; it can succeed when its inputs exist
        {[status |-> 1, files |-> f]}
        \cup (IF Operands(Tail(ws)) \subseteq f
              THEN {[status |-> 0, files |-> f \cup out]}
                   \cup (IF prog = <<"rustc">> /\ in_windows
                         THEN {[status |-> 0,
                                files |-> f \cup out \cup {PdbOf(o) : o \in out}]}
                         ELSE {})
              ELSE {})
    ELSE IF prog = <<"rm">> THEN
        \* rm removes the operands that exist and fails when one was missing
        {[status |-> IF gone \subseteq f THEN 0 ELSE 1, files |-> f \ gone]}
    ELSE {[status |-> 1, files |-> f]}

(***************************************************************************)
(* Initial state                                                           *)
(***************************************************************************)
Sources == {lrtdw_src(C), lrtdw_src(Rust), c_src, rs_src}

TokenSeqs == UNION {[1..n -> Tokens] : n \in 0..MaxArgs}

\* The three scripts are started on the same command line; the standalone
\* scripts, which know no flags, get it without the toolchain flags.
ArgvOf(s, tokens) ==
    <<"make.py">> \o (IF s = LRTDW THEN tokens ELSE Positionals(tokens))

StartPc(s) == IF s = LRTDW THEN "parse_args" ELSE "main"

Init ==
    /\ platform \in Platforms
    /\ \E tokens \in TokenSeqs : argv = [s \in Scripts |-> ArgvOf(s, tokens)]
    /\ pc = [s \in Scripts |-> "idle"]
    /\ args = NoArgs
    /\ issued = [s \in Scripts |-> << >>]
    /\ returned = [s \in Scripts |-> << >>]
    /\ console = [s \in Scripts |-> << >>]
    /\ exitCode = [s \in Scripts |-> << >>]
    /\ fs = Sources

\* the user starts script s: the interpreter runs the module-level code and
\* reaches the __main__ block
Start(s) ==
    /\ pc[s] = "idle"
    /\ \A r \in Scripts : pc[r] \in {"idle", "done"}
    /\ pc' = [pc EXCEPT ![s] = StartPc(s)]
    /\ UNCHANGED <<platform, argv, args, issued, returned, console, exitCode, fs>>

(***************************************************************************)
(* lrtdw/make.py                                                           *)
(***************************************************************************)
\* lines 40-45: build the parser, parse_args()
ParseArgs ==
    /\ pc[LRTDW] = "parse_args"
    /\ LET tokens == Tail(argv[LRTDW])
           err == ParseError(tokens)
       IN
       IF err # "none"
       THEN /\ console' = [console EXCEPT ![LRTDW] = Append(@, err)]
            /\ exitCode' = [exitCode EXCEPT ![LRTDW] = <<2>>]
            /\ pc' = [pc EXCEPT ![LRTDW] = "done"]
            /\ UNCHANGED args
       ELSE /\ args' = Namespace(tokens)
            /\ pc' = [pc EXCEPT ![LRTDW] = "rule"]
            /\ UNCHANGED <<console, exitCode>>
    /\ UNCHANGED <<platform, argv, issued, returned, fs>>

\* lines 47, 51-53, 58: choose the branch; `time` on win32 only prints
Dispatch ==
    /\ pc[LRTDW] = "rule"
    /\ IF args.rule = "time" /\ in_windows
       THEN /\ console' = [console EXCEPT ![LRTDW] =
                              Append(@, "The time command only works in *nix")]
            /\ pc' = [pc EXCEPT ![LRTDW] = "exit"]
       ELSE /\ pc' = [pc EXCEPT ![LRTDW] = "c_step"]
            /\ UNCHANGED console
    /\ UNCHANGED <<platform, argv, args, issued, returned, exitCode, fs>>

\* mutant: the two flags are mixed up
Skips_Swapped(t) == IF t = C THEN args.c_only ELSE args.rust_only

\* is the step of toolchain t skipped?
Skips(t) == IF t = C THEN args.rust_only ELSE args.c_only

\* lines 48, 55, 59: if not args.rust_only: system(...)
StepC ==
    /\ pc[LRTDW] = "c_step"
    /\ IF Skips(C)
       THEN /\ pc' = [pc EXCEPT ![LRTDW] = "rust_step"]
            /\ UNCHANGED issued
       ELSE /\ issued' = [issued EXCEPT ![LRTDW] = Append(@, LrtdwCmd(args.rule, C))]
            /\ pc' = [pc EXCEPT ![LRTDW] = "c_wait"]
    /\ UNCHANGED <<platform, argv, args, returned, console, exitCode, fs>>

\* mutant: the Rust step is given up when the C command failed
StepRust_StopOnFailure ==
    /\ pc[LRTDW] = "rust_step"
    /\ IF Skips(Rust) \/ (returned[LRTDW] # << >> /\ returned[LRTDW][1] # 0)
       THEN /\ pc' = [pc EXCEPT ![LRTDW] = "exit"]
            /\ UNCHANGED issued
       ELSE /\ issued' = [issued EXCEPT ![LRTDW] = Append(@, LrtdwCmd(args.rule, Rust))]
            /\ pc' = [pc EXCEPT ![LRTDW] = "rust_wait"]
    /\ UNCHANGED <<platform, argv, args, returned, console, exitCode, fs>>

\* lines 49, 56, 60: if not args.c_only: system(...)
StepRust ==
    /\ pc[LRTDW] = "rust_step"
    /\ IF Skips(Rust)
       THEN /\ pc' = [pc EXCEPT ![LRTDW] = "exit"]
            /\ UNCHANGED issued
       ELSE /\ issued' = [issued EXCEPT ![LRTDW] = Append(@, LrtdwCmd(args.rule, Rust))]
            /\ pc' = [pc EXCEPT ![LRTDW] = "rust_wait"]
    /\ UNCHANGED <<platform, argv, args, returned, console, exitCode, fs>>

(***************************************************************************)
(* nbody-c/make.py and nbody-rs/src/make.py                                *)
(***************************************************************************)
\* mutant: `time` is not held back on win32
StandaloneCmd_TimeOnWindows(s, av) ==
    IF Len(av) = 1 THEN StandaloneCompileCmd(s)
    ELSE IF av[2] = "time" THEN StandaloneTimeCmd(s)
    ELSE IF av[2] = "clean" THEN StandaloneCleanCmd(s)
    ELSE << >>

\* mutant: the last argument is dispatched on, not the first
StandaloneCmd_LastArg(s, av) ==
    IF Len(av) = 1 THEN StandaloneCompileCmd(s)
    ELSE IF av[Len(av)] = "time" /\ ~in_windows THEN StandaloneTimeCmd(s)
    ELSE IF av[Len(av)] = "clean" THEN StandaloneCleanCmd(s)
    ELSE << >>

\* the if / elif / elif of __main__: the command issued, << >> for none
StandaloneCmd(s, av) ==
    IF Len(av) = 1 THEN StandaloneCompileCmd(s)
    ELSE IF av[2] = "time" /\ ~in_windows THEN StandaloneTimeCmd(s)
    ELSE IF av[2] = "clean" THEN StandaloneCleanCmd(s)
    ELSE << >>

Main(s) ==
    /\ s \in Standalone
    /\ pc[s] = "main"
    /\ LET cmd == StandaloneCmd(s, argv[s]) IN
       IF cmd = << >>
       THEN /\ pc' = [pc EXCEPT ![s] = "exit"]
            /\ UNCHANGED issued
       ELSE /\ issued' = [issued EXCEPT ![s] = Append(@, cmd)]
            /\ pc' = [pc EXCEPT ![s] = "wait"]
    /\ UNCHANGED <<platform, argv, args, returned, console, exitCode, fs>>

(***************************************************************************)
(* Common steps                                                            *)
(***************************************************************************)
Waiting == {"c_wait", "rust_wait", "wait"}

AfterWait(p) ==
    CASE p = "c_wait"    -> "rust_step"
      [] p = "rust_wait" -> "exit"
      [] p = "wait"      -> "exit"

\* os.system returns: the subprocess has finished; its status is dropped
SystemReturns(s) ==
    /\ pc[s] \in Waiting
    /\ \E o \in Outcomes(issued[s][Len(issued[s])], fs) :
          /\ fs' = o.files
          /\ returned' = [returned EXCEPT ![s] = Append(@, o.status)]
    /\ pc' = [pc EXCEPT ![s] = AfterWait(pc[s])]
    /\ UNCHANGED <<platform, argv, args, issued, console, exitCode>>

\* mutant: the script does not wait for its subprocess
Exit_NoWait(s) ==
    /\ pc[s] \in {"exit"} \cup Waiting
    /\ exitCode' = [exitCode EXCEPT ![s] = <<0>>]
    /\ pc' = [pc EXCEPT ![s] = "done"]
    /\ UNCHANGED <<platform, argv, args, issued, returned, console, fs>>

\* the end of the script is reached: the interpreter exits with status 0
Exit(s) ==
    /\ pc[s] = "exit"
    /\ exitCode' = [exitCode EXCEPT ![s] = <<0>>]
    /\ pc' = [pc EXCEPT ![s] = "done"]
    /\ UNCHANGED <<platform, argv, args, issued, returned, console, fs>>

\* a new round: the user runs the scripts again, on the files the last runs left
Invoke ==
    /\ \A s \in Scripts : pc[s] = "done"
    /\ \E tokens \in TokenSeqs : argv' = [s \in Scripts |-> ArgvOf(s, tokens)]
    /\ pc' = [s \in Scripts |-> "idle"]
    /\ args' = NoArgs
    /\ issued' = [s \in Scripts |-> << >>]
    /\ returned' = [s \in Scripts |-> << >>]
    /\ console' = [s \in Scripts |-> << >>]
    /\ exitCode' = [s \in Scripts |-> << >>]
    /\ UNCHANGED <<platform, fs>>

Next ==
    \/ \E s \in Scripts : Start(s)
    \/ ParseArgs
    \/ Dispatch
    \/ StepC
    \/ StepRust
    \/ \E s \in Standalone : Main(s)
    \/ \E s \in Scripts : SystemReturns(s)
    \/ \E s \in Scripts : Exit(s)
    \/ Invoke

Spec == Init /\ [][Next]_vars


(***************************************************************************)
(* Vocabulary of the properties                                            *)
(***************************************************************************)
Done(s) == pc[s] = "done"

\* the command line of the current invocation, without the script name
CmdLine(s) == Tail(argv[s])

\* the positional tokens of the command line of lrtdw/make.py
LrtdwRule == Positionals(CmdLine(LRTDW))
COnly == "--c_only" \in Range(CmdLine(LRTDW))
RustOnly == "--rust_only" \in Range(CmdLine(LRTDW))
Accepted == LrtdwRule = << >> \/ (Len(LrtdwRule) = 1 /\ LrtdwRule[1] \in {"time", "clean"})
RuleIs(r) == Accepted /\ LrtdwRule = (IF r = "None" THEN << >> ELSE <<r>>)

\* the toolchains lrtdw/make.py is asked to act on, in the order of the code
Selected == (IF RustOnly THEN << >> ELSE <<C>>) \o (IF COnly THEN << >> ELSE <<Rust>>)

\* the toolchain a command of lrtdw/make.py concerns, read off its words
Concerns(cmd) ==
    LET ws == ShellWords(cmd)
        prog == ProgramW(ws)
    IN
    CASE prog = <<"gcc">>   -> {C}
      [] prog = <<"rustc">> -> {Rust}
      [] prog = <<"rm">>    ->
            {t \in Toolchains :
                RemovedW(ws) \cap {lrtdw_exe(t) \o ext, lrtdw_exe(t) \o <<".pdb">>} # {}}
      [] OTHER -> {}

\* what kind of command it is, whatever its flags and path literals
Kind(cmd) ==
    LET ws == ShellWords(cmd) IN
    <<Head(ws) = <<"time">>, ProgramW(ws), Cardinality(WrittenW(ws)),
      Cardinality(RemovedW(ws))>>

Kinds(cmds) == [i \in DOMAIN cmds |-> Kind(cmds[i])]

\* the text of a command with `time ` put in front
Timed(cmd) == <<"time">> \o SP \o cmd

\* the standalone script of a toolchain
StandaloneOf(t) == IF t = C THEN NBODY_C ELSE NBODY_RS

\* the executable path of a script and toolchain, before the platform suffix
ExeBase(s, t) == IF s = LRTDW THEN lrtdw_exe(t) ELSE IF s = NBODY_C THEN c_exe ELSE rs_exe

ToolchainsOf(s) == IF s = LRTDW THEN Toolchains ELSE IF s = NBODY_C THEN {C} ELSE {Rust}

CompileCmdOf(s, t) == IF s = LRTDW THEN LrtdwCompileCmd(t) ELSE StandaloneCompileCmd(s)

\* everything a build can leave behind
Artifacts ==
    UNION {{ExeBase(st[1], st[2]) \o ext}
             \cup (IF st[2] = Rust THEN {ExeBase(st[1], st[2]) \o <<".pdb">>} ELSE {}) :
           st \in {x \in Scripts \X Toolchains : x[2] \in ToolchainsOf(x[1])}}


(***************************************************************************)
(* C1                                                                      *)
(***************************************************************************)
\* the number of os.system calls an invocation makes, read off its command
\* line and the platform
ExpectedCalls(s) ==
    IF s = LRTDW
    THEN (IF ~Accepted \/ (RuleIs("time") /\ in_windows) THEN 0 ELSE Len(Selected))
    ELSE (IF CmdLine(s) = << >> THEN 1
          ELSE IF CmdLine(s)[1] = "time" THEN (IF in_windows THEN 0 ELSE 1)
          ELSE IF CmdLine(s)[1] = "clean" THEN 1
          ELSE 0)

\* C1 as stated: every invocation of every script makes exactly one os.system
\* call, and the call has returned when the script exits.
C1_ExactlyOneSubprocess ==
    \A s \in Scripts : Done(s) => Len(issued[s]) = 1 /\ Len(returned[s]) = 1

\* C1 amended: a script has at most one os.system call in flight, and every
\* call it made has returned when it exits; the number of calls is 0, 1 or 2:
\* one per selected toolchain, none for an unhandled command line and for
\* `time` on win32.
C1_CallsReturnBeforeExit ==
    \A s \in Scripts :
        /\ Len(returned[s]) <= Len(issued[s])
        /\ Len(issued[s]) <= Len(returned[s]) + 1
        /\ Len(issued[s]) <= ExpectedCalls(s)
        /\ Done(s) => /\ Len(returned[s]) = Len(issued[s])
                      /\ Len(issued[s]) = ExpectedCalls(s)

\* lrtdw/make.py has exited after two calls, both returned
C1_Witness ==
    /\ Done(LRTDW)
    /\ Len(issued[LRTDW]) = 2
    /\ Len(returned[LRTDW]) = 2

(***************************************************************************)
(* C2                                                                      *)
(***************************************************************************)
\* C2 as stated: a script invoked without an argument exits with the exit
\* status of its compiler command.
C2_ExitCodePropagates ==
    \A s \in Scripts :
        (Done(s) /\ Positionals(CmdLine(s)) = << >> /\ Len(returned[s]) = 1)
            => exitCode[s] = <<returned[s][1]>>


(***************************************************************************)
(* C3                                                                      *)
(***************************************************************************)
\* C3: under `time` off win32 every command a script issues is the command
\* its no-argument branch builds with the one word `time` in front (the same
\* words in the same order after it); under `time` on win32 it issues nothing.
C3_TimePrependsToCompile ==
    /\ \A s \in Standalone :
          (pc[s] \notin {"idle", "main"} /\ CmdLine(s) # << >> /\ CmdLine(s)[1] = "time") =>
              IF in_windows
              THEN issued[s] = << >>
              ELSE /\ issued[s] = <<Timed(StandaloneCompileCmd(s))>>
                   /\ ShellWords(issued[s][1])
                        = << <<"time">> >> \o ShellWords(StandaloneCompileCmd(s))
    /\ RuleIs("time") =>
          IF in_windows
          THEN issued[LRTDW] = << >>
          ELSE /\ Len(issued[LRTDW]) <= Len(Selected)
               /\ Done(LRTDW) => Len(issued[LRTDW]) = Len(Selected)
               /\ \A i \in DOMAIN issued[LRTDW] :
                     /\ issued[LRTDW][i] = Timed(LrtdwCompileCmd(Selected[i]))
                     /\ ShellWords(issued[LRTDW][i])
                          = << <<"time">> >> \o ShellWords(LrtdwCompileCmd(Selected[i]))

\* off win32, lrtdw/make.py has run `time` for both toolchains and a
\* standalone script has run it too
C3_Witness ==
    /\ ~in_windows
    /\ RuleIs("time")
    /\ Done(LRTDW)
    /\ Len(issued[LRTDW]) = 2
    /\ Done(NBODY_C)
    /\ Len(issued[NBODY_C]) = 1

(***************************************************************************)
(* C4                                                                      *)
(***************************************************************************)
\* the commands of script s that are `rm` commands and have returned
ReturnedCleans(s) ==
    {i \in 1..Len(returned[s]) : Program(issued[s][i]) = <<"rm">>}

\* the toolchain an `rm` command of script s belongs to
CleanToolchain(s, cmd) ==
    IF s = LRTDW THEN (CHOOSE t \in Toolchains : cmd = LrtdwCleanCmd(t))
    ELSE IF s = NBODY_C THEN C ELSE Rust

C5_FlagsMutuallyExclusive ==
    pc[LRTDW] \in {"rule", "c_step", "c_wait", "rust_step", "rust_wait", "exit"}
        => ~(args.c_only /\ args.rust_only)

(***************************************************************************)
(* C6                                                                      *)
(***************************************************************************)
\* the toolchains the commands issued by lrtdw/make.py concern
ActedOn == UNION {Concerns(issued[LRTDW][i]) : i \in DOMAIN issued[LRTDW]}

\* C6 as stated: with --c_only alone every command concerns the C toolchain
\* only, with --rust_only alone the Rust toolchain only, and with neither
\* flag, whatever the rule, both toolchains are acted on.
C6_FlagsRestrictToolchain ==
    Accepted =>
        /\ (COnly /\ ~RustOnly) => ActedOn \subseteq {C}
        /\ (RustOnly /\ ~COnly) => ActedOn \subseteq {Rust}
        /\ (~COnly /\ ~RustOnly /\ Done(LRTDW)) => ActedOn = {C, Rust}

\* C6 amended: as stated, except that under `time` on win32 no command is
\* issued and so no toolchain is acted on; in every other case one flag alone
\* restricts the commands to its toolchain, which is acted on, and with
\* neither flag both toolchains are acted on.
C6_FlagsRestrictToolchainOffWin32Time ==
    Accepted =>
        /\ (COnly /\ ~RustOnly) => ActedOn \subseteq {C}
        /\ (RustOnly /\ ~COnly) => ActedOn \subseteq {Rust}
        /\ Done(LRTDW) =>
              IF RuleIs("time") /\ in_windows
              THEN ActedOn = {}
              ELSE /\ (COnly /\ ~RustOnly) => ActedOn = {C}
                   /\ (RustOnly /\ ~COnly) => ActedOn = {Rust}
                   /\ (~COnly /\ ~RustOnly) => ActedOn = {C, Rust}

\* lrtdw/make.py has finished a `clean` restricted to the Rust toolchain
C6_Witness ==
    /\ Done(LRTDW)
    /\ RuleIs("clean")
    /\ RustOnly /\ ~COnly
    /\ Len(returned[LRTDW]) = 1
    /\ ActedOn = {Rust}

(***************************************************************************)
(* C7                                                                      *)
(***************************************************************************)
\* how an invocation ended: its exit status and whether it reported an error
Termination(s) == <<exitCode[s], "invalid choice" \in Range(console[s])
                                  \/ "unrecognized arguments" \in Range(console[s])>>

\* lrtdw/make.py is restricted to toolchain t alone
RestrictedTo(t) == IF t = C THEN COnly /\ ~RustOnly ELSE RustOnly /\ ~COnly

SourcesOf(s) ==
    IF s = LRTDW THEN {lrtdw_src(C), lrtdw_src(Rust)}
    ELSE IF s = NBODY_C THEN {c_src} ELSE {rs_src}

\* the executable paths of a script, with the platform suffix
ExesOf(s) == {ExeBase(s, t) \o ext : t \in ToolchainsOf(s)}

\* the .pdb side files of a script's Rust executable
PdbsOf(s) == {ExeBase(s, t) \o <<".pdb">> : t \in ToolchainsOf(s) \cap {Rust}}

C9_CThenRustRegardlessOfStatus ==
    (Accepted /\ ~COnly /\ ~RustOnly) =>
        /\ Len(issued[LRTDW]) >= 1 => Concerns(issued[LRTDW][1]) = {C}
        /\ Len(issued[LRTDW]) >= 2 =>
              /\ Concerns(issued[LRTDW][2]) = {Rust}
              /\ Len(returned[LRTDW]) >= 1
        /\ Len(issued[LRTDW]) <= 2
        /\ (Len(returned[LRTDW]) >= 1 /\ pc[LRTDW] \in {"rust_wait", "exit", "done"}) =>
              Len(issued[LRTDW]) = 2
        /\ pc[LRTDW] \in {"exit", "done"} =>
              Len(issued[LRTDW]) = (IF RuleIs("time") /\ in_windows THEN 0 ELSE 2)

\* the C command failed and the Rust command was issued all the same
C9_Witness ==
    /\ Accepted /\ ~COnly /\ ~RustOnly
    /\ Len(returned[LRTDW]) >= 1
    /\ returned[LRTDW][1] = 1
    /\ Len(issued[LRTDW]) = 2
    /\ Concerns(issued[LRTDW][2]) = {Rust}

(***************************************************************************)
(* C10                                                                     *)
(***************************************************************************)
\* C10: what a standalone script does is decided by whether an argument is
\* present and by argv[1] alone: a plain compile only without any argument,
\* a timed compile for `time` off win32, an `rm` for `clean`, and for every
\* other argv[1], and for `time` on win32, no command, no message and a
\* normal exit; later arguments change nothing.
C10_StandaloneDispatch ==
    \A s \in Standalone :
        LET av == argv[s]
            cmds == issued[s]
        IN
        /\ Len(cmds) <= 1
        /\ \A i \in DOMAIN cmds :
              LET ws == ShellWords(cmds[i])
                  timed == Head(ws) = <<"time">>
              IN
              /\ (ProgramW(ws) \in {<<"gcc">>, <<"rustc">>} /\ ~timed) <=> Len(av) = 1
              /\ timed <=> (Len(av) > 1 /\ av[2] = "time" /\ platform # "win32")
              /\ ProgramW(ws) = <<"rm">> <=> (Len(av) > 1 /\ av[2] = "clean")
        /\ pc[s] \notin {"idle", "main"} =>
              (cmds = << >> <=>
                  /\ Len(av) > 1
                  /\ \/ av[2] \notin {"time", "clean"}
                     \/ av[2] = "time" /\ platform = "win32")
        /\ console[s] = << >>
        /\ Done(s) => exitCode[s] = <<0>>

\* a standalone script was given a second argument and acted on the first
C10_Witness ==
    \E s \in Standalone :
        /\ Len(argv[s]) = 3
        /\ argv[s][2] = "clean"
        /\ Done(s)
        /\ Len(issued[s]) = 1
        /\ Program(issued[s][1]) = <<"rm">>

====
